---- MODULE Spec2Model ----
(***************************************************************************)
(* Push-to-talk recording / transcription state machine of src/main.py     *)
(* (class PushToTalkSTT).                                                  *)
(*                                                                         *)
(* Execution contexts:                                                     *)
(*   - the key listener (on_press / on_release of start()), one event at a *)
(*     time;                                                               *)
(*   - one capture thread per started session (_record_audio);             *)
(*   - the audio callback of every started input stream (audio_callback);  *)
(*   - one transcription thread per dispatched session                     *)
(*     (_transcribe_and_type).                                             *)
(* Threads are scheduled without timing assumptions: a sleep is a step     *)
(* that may be taken at any later moment.                                  *)
(*                                                                         *)
(* Amplitudes are integers in units of 1/Scale, a chunk is one block of    *)
(* BlockSize samples summarised by its peak |x| and its own rms.           *)
(***************************************************************************)
EXTENDS Integers, Sequences, FiniteSets

\* ------------------------------------------------------------------ bounds
MaxSessions == 2      \* trigger presses that start a session
MaxChunks == 2        \* chunks the input streams deliver in all
MaxLen == 5           \* chunks of a recording handed to the validation on its own

Sess == 1..MaxSessions

\* --------------------------------------------------------- program constants
SampleRate == 16000
BlockSize == 1600
MinSamples == 3200
Scale == 10000
SilenceRms == 10
SilencePeak == 100

\* Chunk contents the microphone may deliver (peak, rms), in units of
\* 1/Scale: a quiet block (peak 0.005, rms 0.0005) and a loud block
\* (peak 0.5, rms 0.1).
Kinds == { [peak |-> 50, rms |-> 5], [peak |-> 5000, rms |-> 1000] }

VARIABLES
  is_recording,   \* self.is_recording
  lock,           \* holder of self.recording_lock: "free", or "listener" during the grace wait
  audio_buffer,   \* self.audio_buffer: identity of the list object (0 = the list of __init__)
  lists,          \* contents of the list objects; a list self.audio_buffer no longer names is garbage, kept empty
  stream,         \* self.stream: 0 = None, else the id of an InputStream object
  streamSt,       \* per InputStream object: "none", "active", "stopped", "closed"
  cb,             \* per stream: -1 = no callback in flight, else the list the running callback appends to
  nChunks,        \* chunks appended so far, by any stream
  recPc,          \* per capture thread: position in _record_audio
  transPc,        \* per transcription thread: position in _transcribe_and_type
  audio_data,     \* per transcription thread: local audio_data while the thread uses it
  outcome,        \* per transcription thread: the branch it took
  engineCalls,    \* per transcription thread: calls of self.model.transcribe
  enginePeak,     \* per transcription thread: peak of the array handed to the engine (0 = none)
  typeCalls,      \* per transcription thread: calls of self._type_text
  engineText,     \* per transcription thread: result["text"] as the engine returned it
  typedText,      \* per transcription thread: the text passed to self._type_text
  status,         \* last status passed to _update_status
  listener,       \* position of the key listener
  sessions,       \* capture sessions started so far
  lastKey,        \* history: the last key event the listener took and the branch it ran
  expect,         \* history: per session, chunks its own stream appended before the end of its
                  \* grace wait, kept until the session's transcription thread has taken its copy
  finalized       \* history: sessions whose key-up handler finished its grace wait

vars == << is_recording, lock, audio_buffer, lists, stream, streamSt, cb, nChunks,
           recPc, transPc, audio_data, outcome, engineCalls, enginePeak, typeCalls,
           engineText, typedText, status, listener, sessions, lastKey, expect, finalized >>

\* groups used in UNCHANGED
captureVars == << stream, streamSt, recPc >>
cbVars == << cb, nChunks >>
transVars == << transPc, audio_data, outcome, engineCalls, enginePeak, typeCalls,
               engineText, typedText >>
histVars == << lastKey, expect, finalized >>

\* ------------------------------------------------------------- validation
\* sum over the blocks of the mean of x^2 of each block
RECURSIVE SumMsq(_)
SumMsq(a) == IF a = << >> THEN 0 ELSE Head(a).rms * Head(a).rms + SumMsq(Tail(a))

RECURSIVE MaxPeak(_)
MaxPeak(a) ==
  IF a = << >> THEN 0
  ELSE LET m == MaxPeak(Tail(a)) IN IF Head(a).peak > m THEN Head(a).peak ELSE m

\* len(audio_data)
SampleCount(a) == Len(a) * BlockSize

\* len(audio_data) < self.sample_rate * min_duration
TooShort(a) == SampleCount(a) < MinSamples

\* rms < silence_threshold, compared on the squares: mean(x^2) < threshold^2
\* (all blocks have BlockSize samples, so the mean is SumMsq(a) / Len(a))
RmsBelow(a) == SumMsq(a) < SilenceRms * SilenceRms * Len(a)

\* max_amplitude < 0.01
PeakBelow(a) == MaxPeak(a) < SilencePeak

\* silence when either measure is low
Silent_Either(a) == RmsBelow(a) \/ PeakBelow(a)

\* rms < silence_threshold and max_amplitude < 0.01
Silent(a) == RmsBelow(a) /\ PeakBelow(a)

\* the array handed on as it was recorded
Normalize_Skipped(a) == a

\* audio_data / max_val, applied only when max_val > 0
Normalize(a) ==
  LET mx == MaxPeak(a) IN
  IF mx > 0
  THEN [i \in 1..Len(a) |->
          [a[i] EXCEPT !.peak = (a[i].peak * Scale) \div mx,
                       !.rms = (a[i].rms * Scale) \div mx]]
  ELSE a

\* the checks without the silence test
Verdict_NoSilenceCheck(a) == IF TooShort(a) THEN "short" ELSE "accept"

\* the verdict of the checks of _transcribe_and_type on a concatenated array
Verdict(a) ==
  IF TooShort(a) THEN "short"
  ELSE IF Silent(a) THEN "silence"
  ELSE "accept"

\* ------------------------------------------------------------------- init
Init ==
  /\ is_recording = FALSE
  /\ lock = "free"
  /\ audio_buffer = 0
  /\ lists = [i \in 0..MaxSessions |-> << >>]
  /\ stream = 0
  /\ streamSt = [s \in Sess |-> "none"]
  /\ cb = [s \in Sess |-> -1]
  /\ nChunks = 0
  /\ recPc = [s \in Sess |-> "idle"]
  /\ transPc = [s \in Sess |-> "idle"]
  /\ audio_data = [s \in Sess |-> << >>]
  /\ outcome = [s \in Sess |-> "none"]
  /\ engineCalls = [s \in Sess |-> 0]
  /\ enginePeak = [s \in Sess |-> 0]
  /\ typeCalls = [s \in Sess |-> 0]
  /\ engineText = [s \in Sess |-> << >>]
  /\ typedText = [s \in Sess |-> << >>]
  /\ status = "Ready"
  /\ listener = "idle"
  /\ sessions = 0
  /\ lastKey = "none"
  /\ expect = [s \in Sess |-> << >>]
  /\ finalized = {}


\* ------------------------------------------------------------ status sink
\* _update_status(status, color): the status last sent to the sink
StatusLabels == { "Ready", "RECORDING", "Processing", "Error",
                  "Too short", "Silence", "No text" }

\* --------------------------------------------------------- key listener
\* on_key_press without its guard against re-entrant start
StartsSession_NoGuard == TRUE

\* `if not self.is_recording:` of on_key_press
StartsSession == ~is_recording

\* on_key_release without its test of the flag
StopsSession_Always == TRUE

\* `if self.is_recording:` of on_key_release
StopsSession == is_recording

\* `if self.audio_buffer:` of on_key_release, read after the grace wait
BufferNonEmpty == lists[audio_buffer] # << >>

\* a trigger key-down event: on_key_press, the whole `with self.recording_lock` block
on_key_press ==
  /\ listener = "idle" /\ lock = "free"
  /\ (~StartsSession \/ sessions < MaxSessions)
  /\ IF StartsSession
     THEN /\ is_recording' = TRUE
          /\ sessions' = sessions + 1
          /\ audio_buffer' = sessions + 1
          /\ lists' = [i \in 0..MaxSessions |-> << >>]
          /\ status' = "RECORDING"
          /\ recPc' = [recPc EXCEPT ![sessions + 1] = "open"]
          /\ lastKey' = "down_start"
     ELSE /\ lastKey' = "down_repeat"
          /\ UNCHANGED << is_recording, sessions, audio_buffer, lists, status, recPc >>
  /\ UNCHANGED << lock, listener, stream, streamSt, cbVars, transVars, expect, finalized >>

\* a trigger key-up event: on_key_release takes the lock and runs up to the
\* start of time.sleep(0.2), or leaves at once when not recording
on_key_release ==
  /\ listener = "idle" /\ lock = "free"
  /\ IF StopsSession
     THEN /\ is_recording' = FALSE
          /\ status' = "Processing"
          /\ listener' = "grace"
          /\ lock' = "listener"
          /\ lastKey' = "up_stop"
     ELSE /\ lastKey' = "up_idle"
          /\ UNCHANGED << is_recording, status, listener, lock >>
  /\ UNCHANGED << audio_buffer, lists, captureVars, cbVars, transVars, sessions,
                  expect, finalized >>

\* _process_audio: start the thread that runs _transcribe_and_type
ProcessAudio == [transPc EXCEPT ![sessions] = "cat"]

\* the key-up handler also waits for the transcription threads to end
GraceWaitOver_JoinsTranscription == \A t \in Sess : transPc[t] \in {"idle", "done"}

\* time.sleep(0.2) returns when its delay is over: the handler waits for nothing else
GraceWaitOver == TRUE

\* on_key_release after the grace wait: inspect the buffer, _process_audio or
\* Ready, leave the lock
GraceEnd ==
  /\ listener = "grace"
  /\ GraceWaitOver
  /\ finalized' = finalized \cup {sessions}
  /\ IF BufferNonEmpty
     THEN /\ transPc' = ProcessAudio
          /\ UNCHANGED << status, expect >>
     ELSE /\ status' = "Ready"
          /\ transPc' = transPc
          /\ expect' = [expect EXCEPT ![sessions] = << >>]
  /\ lock' = "free"
  /\ listener' = "idle"
  /\ UNCHANGED << is_recording, audio_buffer, lists, captureVars, cbVars, audio_data,
                  outcome, engineCalls, enginePeak, typeCalls, engineText, typedText,
                  sessions, lastKey >>

\* a key other than the trigger and the exit key is pressed: no branch is taken
KeyDownOther ==
  /\ listener = "idle"
  /\ lastKey' = "other_down"
  /\ UNCHANGED << is_recording, lock, audio_buffer, lists, captureVars, cbVars,
                  transVars, status, listener, sessions, expect, finalized >>

\* a key other than the trigger key is released: no branch is taken
KeyUpOther ==
  /\ listener = "idle"
  /\ lastKey' = "other_up"
  /\ UNCHANGED << is_recording, lock, audio_buffer, lists, captureVars, cbVars,
                  transVars, status, listener, sessions, expect, finalized >>

\* the exit key is pressed: on_press clears the flag under the lock
ExitClearFlag ==
  /\ listener = "idle" /\ lock = "free"
  /\ is_recording' = FALSE
  /\ listener' = "escStop"
  /\ lastKey' = IF is_recording THEN "exit_rec" ELSE "exit_idle"
  /\ UNCHANGED << lock, audio_buffer, lists, captureVars, cbVars, transVars, status,
                  sessions, expect, finalized >>

\* InputStream.stop(): returns once no callback of that stream is running;
\* stopping a stream that is not active changes nothing and raises nothing
StopStream(st, s) == [st EXCEPT ![s] = IF @ = "active" THEN "stopped" ELSE @]

\* InputStream.close()
CloseStream(st, s) == [st EXCEPT ![s] = "closed"]

\* on_press, exit key: `if self.stream:` stop and close it inside try/except,
\* quit the display, return False to the listener
ExitStopStream ==
  /\ listener = "escStop"
  /\ IF stream = 0
     THEN streamSt' = streamSt
     ELSE /\ cb[stream] = -1
          /\ streamSt' = CloseStream(StopStream(streamSt, stream), stream)
  /\ listener' = "stopped"
  /\ UNCHANGED << is_recording, lock, audio_buffer, lists, stream, recPc, cbVars,
                  transVars, status, sessions, histVars >>

\* -------------------------------------------------- capture thread k
\* sd.InputStream(...) and self.stream.start(): the device opens, or the call raises
DeviceOutcomes == { "opened", "raised" }

\* self.stream = sd.InputStream(...); self.stream.start()
RecOpen(k) ==
  /\ recPc[k] = "open"
  /\ \E r \in DeviceOutcomes :
       IF r = "opened"
       THEN /\ stream' = k
            /\ streamSt' = [streamSt EXCEPT ![k] = "active"]
            /\ recPc' = [recPc EXCEPT ![k] = "loop"]
       ELSE /\ recPc' = [recPc EXCEPT ![k] = "fail"]
            /\ UNCHANGED << stream, streamSt >>
  /\ UNCHANGED << is_recording, lock, audio_buffer, lists, cbVars, transVars, status,
                  listener, sessions, histVars >>

\* `while self.is_recording: time.sleep(0.05)` is left once the flag reads False
LoopExits == ~is_recording

\* time.sleep(0.1) and the polling loop of _record_audio, until the flag reads False
RecLoopExit(k) ==
  /\ recPc[k] = "loop"
  /\ LoopExits
  /\ recPc' = [recPc EXCEPT ![k] = "chk"]
  /\ UNCHANGED << is_recording, lock, audio_buffer, lists, stream, streamSt, cbVars,
                  transVars, status, listener, sessions, histVars >>

\* `if self.stream:` of _record_audio
RecCheckStream(k) ==
  /\ recPc[k] = "chk"
  /\ recPc' = [recPc EXCEPT ![k] = IF stream = 0 THEN "done" ELSE "stop"]
  /\ UNCHANGED << is_recording, lock, audio_buffer, lists, stream, streamSt, cbVars,
                  transVars, status, listener, sessions, histVars >>

\* self.stream.stop(); self.stream.close(); self.stream = None of _record_audio:
\* AttributeError when self.stream is None by now
RecStopStream(k) ==
  /\ recPc[k] = "stop"
  /\ IF stream = 0
     THEN /\ recPc' = [recPc EXCEPT ![k] = "failStop"]
          /\ UNCHANGED << stream, streamSt >>
     ELSE /\ cb[stream] = -1
          /\ streamSt' = CloseStream(StopStream(streamSt, stream), stream)
          /\ stream' = 0
          /\ recPc' = [recPc EXCEPT ![k] = "done"]
  /\ UNCHANGED << is_recording, lock, audio_buffer, lists, cbVars, transVars,
                  status, listener, sessions, histVars >>

\* what the except handler of _record_audio sends to the status sink before it returns
CaptureErrorStatus == "Error"

\* the except handler writes the flag without taking the lock
FailHandlerLocked_NoLock == TRUE

\* `with self.recording_lock:` of the except handler: entered once nobody holds the lock
FailHandlerLocked == lock = "free"

\* except handler of _record_audio: self.is_recording = False under the lock,
\* self._update_status("Error"), the thread ends
RecFail(k) ==
  /\ recPc[k] \in {"fail", "failStop"}
  /\ FailHandlerLocked
  /\ is_recording' = FALSE
  /\ status' = CaptureErrorStatus
  /\ recPc' = [recPc EXCEPT ![k] = "failed"]
  /\ UNCHANGED << lock, audio_buffer, lists, stream, streamSt, cbVars, transVars,
                  listener, sessions, histVars >>

\* ------------------------------------------------- audio callback of stream s
\* the callback appends whatever the flag reads
CallbackRecords_Always == TRUE

\* `if self.is_recording:` of audio_callback
CallbackRecords == is_recording

\* audio_callback sees the flag set and binds self.audio_buffer.append
CbObserve(s) ==
  /\ streamSt[s] = "active" /\ cb[s] = -1
  /\ nChunks < MaxChunks
  /\ CallbackRecords
  /\ cb' = [cb EXCEPT ![s] = audio_buffer]
  /\ UNCHANGED << is_recording, lock, audio_buffer, lists, captureVars, nChunks,
                  transVars, status, listener, sessions, histVars >>

\* the chunk a callback of stream s appends: its stream, its index, its content
Chunk(s, kind) == [src |-> s, idx |-> nChunks + 1, peak |-> kind.peak, rms |-> kind.rms]

\* audio_callback appends indata.copy().flatten() to the list it bound
CbAppend(s) ==
  /\ cb[s] # -1
  /\ \E kind \in Kinds :
       /\ lists' = IF cb[s] = audio_buffer
                   THEN [lists EXCEPT ![cb[s]] = Append(@, Chunk(s, kind))]
                   ELSE lists
       /\ expect' = IF sessions = s /\ s \notin finalized /\ cb[s] = s
                    THEN [expect EXCEPT ![s] = Append(@, Chunk(s, kind))]
                    ELSE expect
  /\ nChunks' = nChunks + 1
  /\ cb' = [cb EXCEPT ![s] = -1]
  /\ UNCHANGED << is_recording, lock, audio_buffer, captureVars, transVars, status,
                  listener, sessions, lastKey, finalized >>


\* --------------------------------------------- transcription thread t
\* the status a rejected array is reported with
VerdictStatus(v) == IF v = "short" THEN "Too short" ELSE "Silence"

\* np.concatenate(self.audio_buffer): the array a transcription thread would take now
ConcatRead == lists[audio_buffer]

\* `if not self.audio_buffer:` (Ready and return), audio_data =
\* np.concatenate(self.audio_buffer) and the duration and silence checks
TransConcat(t) ==
  /\ transPc[t] = "cat"
  /\ LET a == ConcatRead IN
       IF a = << >>
       THEN /\ status' = "Ready"
            /\ outcome' = [outcome EXCEPT ![t] = "nobuf"]
            /\ transPc' = [transPc EXCEPT ![t] = "done"]
            /\ audio_data' = audio_data
       ELSE IF Verdict(a) = "accept"
       THEN /\ audio_data' = [audio_data EXCEPT ![t] = a]
            /\ transPc' = [transPc EXCEPT ![t] = "engine"]
            /\ UNCHANGED << status, outcome >>
       ELSE /\ status' = VerdictStatus(Verdict(a))
            /\ outcome' = [outcome EXCEPT ![t] = Verdict(a)]
            /\ transPc' = [transPc EXCEPT ![t] = "hold"]
            /\ audio_data' = audio_data
  /\ expect' = [expect EXCEPT ![t] = << >>]
  /\ UNCHANGED << is_recording, lock, audio_buffer, lists, captureVars, cbVars,
                  engineCalls, enginePeak, typeCalls, engineText, typedText, listener,
                  sessions, lastKey, finalized >>

\* texts self.model.transcribe may return, as sequences of characters:
\* nothing, only whitespace, a word with whitespace before it
EngineTexts == { << >>, << " " >>, << " ", "a" >> }

\* self.model.transcribe raises, or returns result["text"]
EngineResults ==
  { [ok |-> FALSE, text |-> << >>] } \cup { [ok |-> TRUE, text |-> x] : x \in EngineTexts }

\* keyboard_controller.type succeeds or raises inside _type_text
InjectResults == { "typed", "typeErr" }

RECURSIVE LStrip(_)
LStrip(x) == IF x # << >> /\ Head(x) = " " THEN LStrip(Tail(x)) ELSE x

RECURSIVE RStrip(_)
RStrip(x) == IF x # << >> /\ x[Len(x)] = " " THEN RStrip(SubSeq(x, 1, Len(x) - 1)) ELSE x

\* the text used as the engine returned it
Strip_Skipped(x) == x

\* result["text"].strip()
Strip(x) == RStrip(LStrip(x))

\* `if text:` on the stripped text
TypesText(text) == text # << >>

\* the status sent when the engine call has ended with r and nothing is typed
EngineStatus(r) == IF ~r.ok THEN "Error" ELSE "No text"

\* an exception of the keyboard controller leaves _type_text and reaches the
\* except handler of _transcribe_and_type
InjectStatus_Propagates(i) == IF i = "typeErr" THEN "Error" ELSE "Ready"

\* the status sent after self._type_text(text) has returned: _type_text
\* catches what the keyboard controller raises
InjectStatus(i) == "Ready"

\* normalisation, self.model.transcribe, and the handling of its result:
\* _type_text and Ready, or "No text", or the except handler's "Error"
TransEngine(t) ==
  /\ transPc[t] = "engine"
  /\ enginePeak' = [enginePeak EXCEPT ![t] = MaxPeak(Normalize(audio_data[t]))]
  /\ engineCalls' = [engineCalls EXCEPT ![t] = @ + 1]
  /\ audio_data' = [audio_data EXCEPT ![t] = << >>]
  /\ \E r \in EngineResults :
       LET text == Strip(r.text) IN
       /\ engineText' = [engineText EXCEPT ![t] = r.text]
       /\ IF r.ok /\ TypesText(text)
          THEN /\ typeCalls' = [typeCalls EXCEPT ![t] = @ + 1]
               /\ typedText' = [typedText EXCEPT ![t] = text]
               /\ \E i \in InjectResults :
                    /\ outcome' = [outcome EXCEPT ![t] = i]
                    /\ status' = InjectStatus(i)
               /\ transPc' = [transPc EXCEPT ![t] = "done"]
          ELSE /\ UNCHANGED << typeCalls, typedText >>
               /\ status' = EngineStatus(r)
               /\ outcome' = [outcome EXCEPT ![t] = IF r.ok THEN "notext" ELSE "engineErr"]
               /\ transPc' = [transPc EXCEPT ![t] = "hold"]
  /\ UNCHANGED << is_recording, lock, audio_buffer, lists, captureVars, cbVars,
                  listener, sessions, histVars >>

\* the hold ends without the status being reset
HoldStatus_Stuck == status

\* the status sent after time.sleep(1)
HoldStatus == "Ready"

\* time.sleep(1) is over: self._update_status("Ready"), the thread ends
TransHoldEnd(t) ==
  /\ transPc[t] = "hold"
  /\ status' = HoldStatus
  /\ transPc' = [transPc EXCEPT ![t] = "done"]
  /\ UNCHANGED << is_recording, lock, audio_buffer, lists, captureVars, cbVars,
                  audio_data, outcome, engineCalls, enginePeak, typeCalls, engineText,
                  typedText, listener, sessions, histVars >>

\* ------------------------------------------------------------ specification
Next ==
  \/ on_key_press
  \/ on_key_release
  \/ GraceEnd
  \/ KeyDownOther
  \/ KeyUpOther
  \/ ExitClearFlag
  \/ ExitStopStream
  \/ \E k \in Sess : RecOpen(k)
  \/ \E k \in Sess : RecLoopExit(k)
  \/ \E k \in Sess : RecCheckStream(k)
  \/ \E k \in Sess : RecStopStream(k)
  \/ \E k \in Sess : RecFail(k)
  \/ \E s \in Sess : CbObserve(s)
  \/ \E s \in Sess : CbAppend(s)
  \/ \E t \in Sess : TransConcat(t)
  \/ \E t \in Sess : TransEngine(t)
  \/ \E t \in Sess : TransHoldEnd(t)

Spec == Init /\ [][Next]_vars

\* ------------------------------------- the validation on recordings of any content
\* Block contents for the validation on its own (peak, rms): digital zero,
\* quiet (0.005, 0.0005), a click (0.02, 0.0005), a hum (0.005, 0.002),
\* both thresholds met exactly (0.01, 0.001), loud (0.5, 0.1).
KindsV == { [peak |-> 0, rms |-> 0], [peak |-> 50, rms |-> 5], [peak |-> 200, rms |-> 5],
            [peak |-> 50, rms |-> 20], [peak |-> 100, rms |-> 10],
            [peak |-> 5000, rms |-> 1000] }

\* the state in which _process_audio has just started the transcription thread
\* of the first session, for every recording of 1..MaxLen blocks over KindsV
InitValidate ==
  \E n \in 1..MaxLen : \E f \in [1..n -> KindsV] :
    LET a == [i \in 1..n |-> [src |-> 1, idx |-> i, peak |-> f[i].peak, rms |-> f[i].rms]] IN
    /\ is_recording = FALSE
    /\ lock = "free"
    /\ audio_buffer = 1
    /\ lists = [i \in 0..MaxSessions |-> IF i = 1 THEN a ELSE << >>]
    /\ stream = 0
    /\ streamSt = [s \in Sess |-> IF s = 1 THEN "closed" ELSE "none"]
    /\ cb = [s \in Sess |-> -1]
    /\ nChunks = n
    /\ recPc = [s \in Sess |-> IF s = 1 THEN "done" ELSE "idle"]
    /\ transPc = [s \in Sess |-> IF s = 1 THEN "cat" ELSE "idle"]
    /\ audio_data = [s \in Sess |-> << >>]
    /\ outcome = [s \in Sess |-> "none"]
    /\ engineCalls = [s \in Sess |-> 0]
    /\ enginePeak = [s \in Sess |-> 0]
    /\ typeCalls = [s \in Sess |-> 0]
    /\ engineText = [s \in Sess |-> << >>]
    /\ typedText = [s \in Sess |-> << >>]
    /\ status = "Processing"
    /\ listener = "idle"
    /\ sessions = 1
    /\ lastKey = "up_stop"
    /\ expect = [s \in Sess |-> IF s = 1 THEN a ELSE << >>]
    /\ finalized = {1}

\* the steps of the transcription threads alone
NextValidate ==
  \/ \E t \in Sess : TransConcat(t)
  \/ \E t \in Sess : TransEngine(t)
  \/ \E t \in Sess : TransHoldEnd(t)

ValidateSpec == InitValidate /\ [][NextValidate]_vars


\* ------------------------------------------------------------------ claims
\* the capture threads a step launches
Launched == { k \in Sess : recPc[k] = "idle" /\ recPc'[k] # "idle" }

\* a transcription thread has been dispatched and has not finished
InFlight == \E t \in Sess : transPc[t] \in {"cat", "engine", "hold"}

\* a transcription thread is in the one-second display of its Error status
ErrorDisplayed == \E t \in Sess : transPc[t] = "hold" /\ outcome[t] = "engineErr"

\* C1: a trigger key-down that arrives while a dispatched transcription is still
\* running, or while its Error is displayed, starts no session and leaves the
\* audio buffer alone.
C1_PressIgnoredWhileBusy ==
  [][ (on_key_press /\ (InFlight \/ ErrorDisplayed))
        => (sessions' = sessions /\ audio_buffer' = audio_buffer /\ lists' = lists
            /\ Launched = {}) ]_vars

\* C2: the array a session's transcription thread takes and validates is the
\* in-order concatenation of the chunks that session's own stream appended up to
\* the end of the grace wait.
C2_ValidatedIsSessionAudio ==
  \A t \in Sess : (transPc[t] = "cat" /\ ConcatRead # << >>) => ConcatRead = expect[t]

\* C3: a trigger key-down taken while not recording starts exactly one session
\* (flag set, a fresh empty buffer, one capture thread launched); one taken
\* while recording starts none and leaves flag, buffer and threads alone.
C3_OneSessionPerPress ==
  [][ on_key_press =>
        IF ~is_recording
        THEN /\ is_recording'
             /\ sessions' = sessions + 1
             /\ audio_buffer' # audio_buffer
             /\ lists'[audio_buffer'] = << >>
             /\ Launched = {sessions'}
        ELSE /\ UNCHANGED << is_recording, sessions, audio_buffer, lists >>
             /\ Launched = {} ]_vars

\* a key-repeat has been taken while the one session it belongs to is recording
C3_Witness ==
  /\ lastKey = "down_repeat" /\ is_recording
  /\ sessions = 1 /\ recPc[1] = "loop" /\ audio_buffer = 1


\* no thread and no callback has a step left, and the listener waits for a key
AtRest ==
  /\ listener = "idle"
  /\ \A k \in Sess : /\ recPc[k] \in {"idle", "done", "failed"}
                     /\ transPc[k] \in {"idle", "done"}
                     /\ cb[k] = -1

\* C4: once the capture thread of the latest session has failed and everything
\* has come to rest with no further key event, the flag is cleared and the
\* status is back to Ready.
C4_CaptureFailureRecovers ==
  (AtRest /\ sessions > 0 /\ recPc[sessions] = "failed" /\ lastKey = "down_start")
    => (~is_recording /\ status = "Ready")

\* the steps of transcription thread t
TransStep(t) == transPc'[t] # transPc[t]

\* C5: when the engine call of a session fails, Error is sent, the thread holds,
\* the end of the hold is enabled without any key event and sends Ready, and
\* _type_text is never called for that session.
C5_EngineFailure ==
  /\ [](\A t \in Sess : outcome[t] = "engineErr" =>
          /\ typeCalls[t] = 0
          /\ transPc[t] \in {"hold", "done"}
          /\ (transPc[t] = "hold" => ENABLED TransHoldEnd(t)))
  /\ [][\A t \in Sess :
          /\ (outcome[t] # "engineErr" /\ outcome'[t] = "engineErr")
               => (status' = "Error" /\ transPc'[t] = "hold")
          /\ (outcome[t] = "engineErr" /\ TransStep(t))
               => (status' = "Ready" /\ transPc'[t] = "done")]_vars

\* a session whose engine call failed has shown Error and is back to Ready
C5_Witness ==
  \E t \in Sess : /\ outcome[t] = "engineErr" /\ transPc[t] = "done"
                  /\ engineCalls[t] = 1 /\ typeCalls[t] = 0 /\ status = "Ready"

\* the statuses that report a rejected recording
Diagnostics == { "Too short", "Silence" }

\* transcription thread t takes an array that is empty, too short or silent
TakesRejected(t) ==
  /\ transPc[t] = "cat" /\ TransStep(t)
  /\ (ConcatRead = << >> \/ TooShort(ConcatRead) \/ Silent(ConcatRead))

\* the key-up handler finds the buffer empty after the grace wait
ReleaseFindsEmpty == GraceEnd /\ lists[audio_buffer] = << >>

\* a session that was rejected never reaches the engine or the injector
RejectedNeverTranscribed ==
  /\ [](\A t \in Sess : outcome[t] \in {"nobuf", "short", "silence"} =>
          /\ engineCalls[t] = 0 /\ typeCalls[t] = 0
          /\ transPc[t] \in {"hold", "done"}
          /\ (transPc[t] = "hold" => ENABLED TransHoldEnd(t)))
  /\ [][\A t \in Sess :
          /\ TakesRejected(t)
               => (outcome'[t] \in {"nobuf", "short", "silence"} /\ transPc'[t] # "engine")
          /\ (outcome[t] \in {"short", "silence"} /\ TransStep(t))
               => (status' = "Ready" /\ transPc'[t] = "done")]_vars
  /\ [][ReleaseFindsEmpty => (transPc' = transPc /\ engineCalls' = engineCalls)]_vars

TakesValid(t) ==
  /\ transPc[t] = "cat" /\ TransStep(t)
  /\ ConcatRead # << >> /\ ~TooShort(ConcatRead) /\ ~Silent(ConcatRead)

C8_ExitDuringRecording ==
  lastKey = "exit_rec" =>
    /\ listener \in {"escStop", "stopped"}
    /\ transPc[sessions] = "idle"
    /\ \A t \in Sess : transPc[t] = "engine" =>
         \A i \in DOMAIN audio_data[t] : audio_data[t][i].src # sessions

\* C9: once the exit handler has returned, the flag is false, no stream is
\* active, and no key event is handled any more.
C9_ExitWins ==
  /\ [](listener = "stopped" => (~is_recording /\ \A s \in Sess : streamSt[s] # "active"))
  /\ [][listener = "stopped" => (listener' = listener /\ lastKey' = lastKey)]_vars

\* C10: no capture thread ever reaches its failure handler from the stop of
\* its stream.
C10_StopIdempotent ==
  \A k \in Sess : recPc[k] # "failStop"

\* a text of whitespace only (or no text at all)
IsBlank(x) == \A i \in DOMAIN x : x[i] = " "

\* a text that is not empty and has no whitespace at either end
IsTrimmed(x) == x # << >> /\ Head(x) # " " /\ x[Len(x)] # " "

\* C11: when the engine returns a text that is empty once trimmed, _type_text
\* is not called, "No text" is held and Ready follows; _type_text is called
\* only with a non-empty text that has no whitespace at either end.
C11_EmptyTextNotTyped ==
  /\ [](\A t \in Sess :
          /\ (typeCalls[t] = 0) <=> (typedText[t] = << >>)
          /\ (typeCalls[t] > 0) => (IsTrimmed(typedText[t]) /\ ~IsBlank(engineText[t]))
          /\ (outcome[t] = "notext") =>
               /\ engineCalls[t] = 1 /\ IsBlank(engineText[t]) /\ typeCalls[t] = 0
               /\ transPc[t] \in {"hold", "done"}
               /\ (transPc[t] = "hold" => ENABLED TransHoldEnd(t)))
  /\ [][\A t \in Sess :
          /\ (transPc[t] = "engine" /\ TransStep(t) /\ outcome'[t] # "engineErr"
                /\ IsBlank(engineText'[t]))
               => (outcome'[t] = "notext" /\ typeCalls' = typeCalls)
          /\ (outcome[t] = "notext" /\ TransStep(t))
               => (status' = "Ready" /\ transPc'[t] = "done")]_vars

\* the engine returned whitespace only: nothing was typed and Ready is back
C11_Witness ==
  \E t \in Sess : /\ outcome[t] = "notext" /\ engineText[t] = << " " >>
                  /\ typeCalls[t] = 0 /\ transPc[t] = "done" /\ status = "Ready"

\* C12: when the keyboard controller fails inside _type_text, the step that
\* made the call sends Ready and ends the thread: no Error, no hold.
C12_InjectionFailureCaught ==
  /\ [](\A t \in Sess : outcome[t] = "typeErr" =>
          (transPc[t] = "done" /\ typeCalls[t] = 1 /\ engineCalls[t] = 1))
  /\ [][\A t \in Sess : (outcome'[t] = "typeErr" /\ outcome[t] # "typeErr")
          => (status' = "Ready" /\ transPc'[t] = "done")]_vars

\* a session whose injection failed has completed with status Ready
C12_Witness ==
  \E t \in Sess : /\ outcome[t] = "typeErr" /\ transPc[t] = "done"
                  /\ typedText[t] = << "a" >> /\ status = "Ready"

\* C13: the key-up handler is never held up by a transcription: the end of
\* its grace wait is always enabled, it dispatches without running the engine,
\* frees the lock and returns; the transcription threads never touch the lock
\* or the listener, and while one is in flight the listener takes key events.
C13_KeyUpNeverWaitsForEngine ==
  /\ [](listener = "grace" => ENABLED GraceEnd)
  /\ [](lock = "listener" => listener = "grace")
  /\ []((listener = "idle" /\ InFlight) =>
          (ENABLED on_key_release /\ ENABLED KeyDownOther /\ ENABLED ExitClearFlag))
  /\ [][(listener = "grace" /\ listener' # "grace")
          => (lock' = "free" /\ listener' = "idle" /\ engineCalls' = engineCalls)]_vars
  /\ [][\A t \in Sess : (transPc[t] # "idle" /\ TransStep(t))
          => (lock' = lock /\ listener' = listener)]_vars

\* the key-up of a second session is handled while the transcription thread
\* of the first one is about to call the engine
C13_Witness ==
  /\ sessions = 2 /\ lastKey = "up_stop" /\ finalized = {1, 2}
  /\ listener = "idle" /\ transPc[1] = "engine"

\* sampleCount < 0.2 * sampleRate
ShorterThanFifthSecond(a) == 5 * Len(a) * BlockSize < SampleRate

\* RMS < 0.001, on the squares
RmsUnderThousandth(a) == SumMsq(a) < (Scale \div 1000) * (Scale \div 1000) * Len(a)

\* peak < 0.01
PeakUnderHundredth(a) == 100 * MaxPeak(a) < Scale

\* C14: the checks decide in this order: fewer samples than 0.2 s is "too
\* short"; otherwise RMS < 0.001 and peak < 0.01 together is "silence";
\* otherwise the array goes to the engine, rescaled to peak 1.0 when its
\* peak is above 0.
C14_ValidationOrder ==
  /\ [][\A t \in Sess : (transPc[t] = "cat" /\ TransStep(t) /\ ConcatRead # << >>) =>
          LET a == ConcatRead IN
          IF ShorterThanFifthSecond(a)
          THEN outcome'[t] = "short" /\ status' = "Too short" /\ transPc'[t] = "hold"
          ELSE IF RmsUnderThousandth(a) /\ PeakUnderHundredth(a)
          THEN outcome'[t] = "silence" /\ status' = "Silence" /\ transPc'[t] = "hold"
          ELSE transPc'[t] = "engine" /\ audio_data'[t] = a /\ outcome'[t] = "none"]_vars
  /\ [][\A t \in Sess : (transPc[t] = "engine" /\ TransStep(t)) =>
          enginePeak'[t] = IF MaxPeak(audio_data[t]) > 0 THEN Scale ELSE 0]_vars

\* a 0.5 s recording of RMS 0.0005 and peak 0.005 was rejected as silence
C14_Witness ==
  /\ outcome[1] = "silence" /\ engineCalls[1] = 0
  /\ Len(lists[1]) = 5
  /\ \A i \in 1..5 : lists[1][i].peak = 50 /\ lists[1][i].rms = 5

\* a step that assigns self.is_recording: the flag changes, or the except
\* handler of a capture thread or the exit handler assigns it
WritesFlag ==
  \/ is_recording' # is_recording
  \/ \E k \in Sess : recPc[k] # "failed" /\ recPc'[k] = "failed"
  \/ listener = "idle" /\ listener' = "escStop"

\* a step that rebinds self.audio_buffer to a new list
ResetsBuffer == audio_buffer' # audio_buffer

\* C15: every step that assigns the flag or rebinds the buffer is taken when
\* no other context holds the lock, and leaves the lock free or held by the
\* key-up handler that starts its grace wait.
C15_WritesUnderLock ==
  [][(WritesFlag \/ ResetsBuffer) =>
       /\ lock = "free"
       /\ (lock' = "free" \/ (lock' = "listener" /\ listener' = "grace"))]_vars

\* the except handler of a capture thread is due while the key-up handler
\* holds the lock for its grace wait
C15_Witness ==
  /\ lock = "listener" /\ listener = "grace"
  /\ \E k \in Sess : recPc[k] = "fail"

\* the key-up handler has inspected the buffer of the latest session and its
\* transcription thread has not yet taken its copy
ReadPending == audio_buffer \in finalized /\ transPc[audio_buffer] = "cat"

\* C16: the key-up handler inspects the buffer only with the flag cleared, and
\* from that read until the transcription thread has taken its copy no
\* callback appends to that buffer.
C16_NoAppendWhileRead ==
  /\ [][(listener = "grace" /\ listener' = "idle") => ~is_recording]_vars
  /\ [][\A s \in Sess : (cb[s] # -1 /\ cb'[s] = -1 /\ lists' # lists) => ~ReadPending]_vars

\* C17: a callback goes on to append only on an invocation that read the flag
\* as true; a chunk is appended only by such a callback; no step of a callback
\* touches the lock, and its append is enabled whoever holds the lock.
C17_CallbackAppendsOnlyWhenRecording ==
  /\ [][\A s \in Sess : (cb[s] = -1 /\ cb'[s] # -1) => (is_recording /\ lock' = lock)]_vars
  /\ [][nChunks' # nChunks =>
          (lock' = lock /\ \E s \in Sess : cb[s] # -1 /\ cb'[s] = -1)]_vars
  /\ [](\A s \in Sess : cb[s] # -1 => ENABLED CbAppend(s))

\* a callback that read the flag as true is about to append its chunk, the
\* second of the session, while the key-up handler holds the lock
C17_Witness ==
  /\ lock = "listener" /\ listener = "grace" /\ ~is_recording
  /\ \E s \in Sess : cb[s] = audio_buffer /\ Len(lists[audio_buffer]) = 1

\* a key event that causes no transition: another key pressed, a key other
\* than the trigger released, the trigger released while not recording
NoTransitionKey ==
  \/ KeyDownOther
  \/ KeyUpOther
  \/ on_key_release /\ ~is_recording
  \/ lastKey' # lastKey /\ lastKey' \in {"other_down", "other_up", "up_idle"}

\* C18: a key event that causes no transition changes neither the flag nor
\* the buffer, starts or stops no capture thread or stream, dispatches no
\* transcription, sends no status, and leaves lock and listener as they were.
C18_NoTransitionKeysChangeNothing ==
  [][NoTransitionKey =>
       UNCHANGED << is_recording, audio_buffer, lists, stream, streamSt, recPc, cb,
                    transPc, status, lock, listener, sessions, finalized >>]_vars

\* the trigger key is released while not recording, with a transcription
\* about to call the engine
C18_Witness ==
  /\ lastKey = "up_idle" /\ ~is_recording /\ listener = "idle"
  /\ sessions = 1 /\ transPc[1] = "engine" /\ status = "Processing"

\* the input streams that are started and not yet stopped
ActiveStreams == { s \in Sess : streamSt[s] = "active" }

\* C19: at most one input stream is active, and while a session is recording
\* the stream of every earlier session is stopped and has no callback left
\* that appends.
C19_OneCaptureActive ==
  /\ Cardinality(ActiveStreams) <= 1
  /\ is_recording => \A s \in Sess : s < sessions => (streamSt[s] # "active" /\ cb[s] = -1)

\* C20: while the flag is set and the stream of the session is running, the
\* status last sent is RECORDING.
C20_StatusMatchesRecording ==
  (is_recording /\ sessions > 0 /\ streamSt[sessions] = "active") => status = "RECORDING"

====
